---- MODULE Spec2Model ----
(***************************************************************************)
(* A model of lildrip's BartlettLewisModel (src/src/lildrip/               *)
(* bartlett_lewis_model.py) and of the module function extrair_beta_eta.   *)
(*                                                                         *)
(* Python floats are modelled as exact rationals [n, d] with d > 0 and     *)
(* gcd(n, d) = 1; Python's None is the record with d = 0.  numpy's global  *)
(* random generator is a small linear congruential generator, so seeding   *)
(* and the order of the draws are those of the code.                       *)
(***************************************************************************)
EXTENDS Integers, Sequences, FiniteSets, TLC

VARIABLES params, calibrated, rng, res, memo

vars == <<params, calibrated, rng, res, memo>>

(***************************************************************************)
(* Numbers                                                                 *)
(***************************************************************************)
RECURSIVE GCD(_, _)
GCD(a, b) == IF b = 0 THEN a ELSE GCD(b, a % b)

Abs(x) == IF x < 0 THEN -x ELSE x

\* The rational n/d in lowest terms (d # 0).
Rat(n, d) ==
    LET g == GCD(Abs(n), Abs(d))
        s == IF d < 0 THEN -1 ELSE 1
    IN  [n |-> s * (n \div g), d |-> s * (d \div g)]

Num(k) == [n |-> k, d |-> 1]

\* Python's None, where a number is expected.
None == [n |-> 0, d |-> 0]

IsNum(x) == x.d > 0

RAdd(a, b) == Rat(a.n * b.d + b.n * a.d, a.d * b.d)

RMul(a, b) == Rat(a.n * b.n, a.d * b.d)

\* a / b for b # 0.
RDiv(a, b) == Rat(a.n * b.d, a.d * b.n)

RLt(a, b) == a.n * b.d < b.n * a.d

RPos(a) == a.n > 0

\* int(a // k) for an integer k > 0: the floor of a / k.
RFloorDiv(a, k) == a.n \div (a.d * k)

RECURSIVE SumInts(_)
SumInts(s) == IF s = <<>> THEN 0 ELSE Head(s) + SumInts(Tail(s))

RECURSIVE SumRats(_)
SumRats(s) == IF s = <<>> THEN Num(0) ELSE RAdd(Head(s), SumRats(Tail(s)))

(***************************************************************************)
(* The global random generator (np.random, which scipy's rvs draw from).   *)
(***************************************************************************)
RngMod == 16

\* np.random.seed(seed)
SeedState(seed) == (11 * seed + 5) % RngMod

\* The generator's state after one draw.
RngNext(s) == (13 * s + 7) % RngMod

\* The draw's raw value, read from the state the draw leaves.
RngBits(s) == (RngNext(s) \div 2 + RngNext(s)) % RngMod

(***************************************************************************)
(* Series and events.  A series is [t0, step, vals]: the sample k (from 1) *)
(* has the timestamp t0 + (k - 1) * step, in minutes.  An event (a         *)
(* DataFrame) is a sequence of rows [t, v].                                *)
(***************************************************************************)
Row(t, v) == [t |-> t, v |-> v]

RowValues(e) == [k \in 1..Len(e) |-> e[k].v]

\* int(gap / interval): Python's int() truncates, and both are positive.
GapIntervals(gap_minutes, interval_minutes) == gap_minutes \div interval_minutes

\* The padded series of identify_events, as rows: gap_intervals zeros before
\* the first and after the last sample.
PaddedSeries(series, g) ==
    LET n == Len(series.vals)
    IN  [k \in 1..(n + 2 * g) |->
            Row(series.t0 + (k - 1 - g) * series.step,
                IF k <= g \/ k > g + n THEN 0 ELSE series.vals[k - g])]

\* padded_series.iloc[a:b + 1].loc[lambda x: x > 0], a and b counted from 0.
RECURSIVE PositiveRows(_, _, _)
PositiveRows(padded, a, b) ==
    IF a > b \/ a >= Len(padded) THEN <<>>
    ELSE (IF padded[a + 1].v > 0 THEN <<padded[a + 1]>> ELSE <<>>)
         \o PositiveRows(padded, a + 1, b)

\* The body of the scan for the sample i (from 0) of the padded series.
ScanStep(padded, g, i, st) ==
    IF padded[i + 1].v > 0
    THEN [st EXCEPT !.in_event = TRUE,
                    !.event_start_idx = IF st.in_event THEN @ ELSE i,
                    !.dry_spell_counter = 0]
    ELSE IF st.in_event /\ st.dry_spell_counter + 1 >= g
         THEN LET event == PositiveRows(padded, st.event_start_idx, i - g)
              IN  [st EXCEPT !.events = IF event # <<>> /\ SumInts(RowValues(event)) > 0
                                        THEN Append(@, event) ELSE @,
                             !.in_event = FALSE,
                             !.dry_spell_counter = 0]
         ELSE [st EXCEPT !.dry_spell_counter = @ + 1]

RECURSIVE ScanFrom(_, _, _, _)
ScanFrom(padded, g, i, st) ==
    IF i >= Len(padded) THEN st
    ELSE ScanFrom(padded, g, i + 1, ScanStep(padded, g, i, st))

\* identify_events: the loop's state when the scan ends; .events is returned.
IdentifyScan(series, inter_event_gap_minutes) ==
    LET g == GapIntervals(inter_event_gap_minutes, series.step)
    IN  ScanFrom(PaddedSeries(series, g), g, 0,
                 [events |-> <<>>, in_event |-> FALSE,
                  dry_spell_counter |-> 0, event_start_idx |-> -1])

IdentifyEvents(series, inter_event_gap_minutes) ==
    IdentifyScan(series, inter_event_gap_minutes).events

(***************************************************************************)
(* extrair_beta_eta                                                        *)
(***************************************************************************)
\* The inner while loop: from the sample i (from 0), with the pulse's length
\* and zero counter so far; gives the index the loop stops at and the length.
\* A slip: the pulse ends only once the zero run is longer than the threshold.
RECURSIVE PulseInnerLate(_, _, _, _, _)
PulseInnerLate(values, g, i, pulse_length, zero_counter) ==
    IF i >= Len(values) THEN [i |-> i, len |-> pulse_length]
    ELSE IF values[i + 1] > 0
         THEN PulseInnerLate(values, g, i + 1, pulse_length + 1, 0)
         ELSE IF zero_counter + 1 > g
              THEN [i |-> i, len |-> pulse_length]
              ELSE PulseInnerLate(values, g, i + 1, pulse_length + 1, zero_counter + 1)

RECURSIVE PulseInner(_, _, _, _, _)
PulseInner(values, g, i, pulse_length, zero_counter) ==
    IF i >= Len(values) THEN [i |-> i, len |-> pulse_length]
    ELSE IF values[i + 1] > 0
         THEN PulseInner(values, g, i + 1, pulse_length + 1, 0)
         ELSE IF zero_counter + 1 >= g
              THEN [i |-> i, len |-> pulse_length]
              ELSE PulseInner(values, g, i + 1, pulse_length + 1, zero_counter + 1)

\* The outer while loop: the lengths (in samples) of the pulses of one event.
RECURSIVE PulseLengths(_, _, _)
PulseLengths(values, g, i) ==
    IF i >= Len(values) THEN <<>>
    ELSE IF values[i + 1] > 0
         THEN LET r == PulseInner(values, g, i + 1, 1, 0)
              IN  <<r.len>> \o PulseLengths(values, g, r.i)
         ELSE PulseLengths(values, g, i + 1)

\* all_pulses_count: the pulse count of every event that has a pulse.
RECURSIVE AllPulsesCount(_, _)
AllPulsesCount(events, g) ==
    IF events = <<>> THEN <<>>
    ELSE LET pl == PulseLengths(RowValues(Head(events)), g, 0)
         IN  (IF Len(pl) > 0 THEN <<Len(pl)>> ELSE <<>>)
             \o AllPulsesCount(Tail(events), g)

\* all_pulse_durations, in minutes.
RECURSIVE AllPulseDurations(_, _, _)
AllPulseDurations(events, g, interval_minutes) ==
    IF events = <<>> THEN <<>>
    ELSE LET pl == PulseLengths(RowValues(Head(events)), g, 0)
         IN  [k \in 1..Len(pl) |-> pl[k] * interval_minutes]
             \o AllPulseDurations(Tail(events), g, interval_minutes)

\* np.mean of a non-empty list of integers.
MeanInts(s) == Rat(SumInts(s), Len(s))

ExtractBetaEta(events, interval_minutes, intra_event_gap_minutes) ==
    LET g == GapIntervals(intra_event_gap_minutes, interval_minutes)
        counts == AllPulsesCount(events, g)
        durs == AllPulseDurations(events, g, interval_minutes)
        mean_pulse_duration == IF durs # <<>> THEN MeanInts(durs) ELSE Num(10)
    IN  [beta |-> IF counts # <<>> THEN MeanInts(counts) ELSE Num(1),
         eta |-> IF RPos(mean_pulse_duration)
                 THEN RDiv(Num(1), mean_pulse_duration) ELSE Rat(1, 10)]

(***************************************************************************)
(* The parameter set: Python's None, or a dict from some of the five keys  *)
(* to values (a number, or None).                                          *)
(***************************************************************************)
Keys == {"lambda", "beta", "gamma", "eta", "mu"}

Dict(keys, l, b, g, e, m) ==
    [none |-> FALSE, keys |-> keys,
     v |-> [k \in Keys |->
              IF k \notin keys THEN None
              ELSE CASE k = "lambda" -> l [] k = "beta" -> b [] k = "gamma" -> g
                     [] k = "eta" -> e [] OTHER -> m]]

FullDict(l, b, g, e, m) == Dict(Keys, l, b, g, e, m)

NoParams == [none |-> TRUE, keys |-> {}, v |-> [k \in Keys |-> None]]

\* bool(params)
Truthy(p) == ~p.none /\ p.keys # {}

\* What reading p[key] as a number does: "ok", or the exception it ends in.
Lookup(p, key) ==
    IF p.none THEN "TypeError"
    ELSE IF key \notin p.keys THEN "KeyError"
    ELSE IF ~IsNum(p.v[key]) THEN "TypeError"
    ELSE "ok"

(***************************************************************************)
(* calibrate                                                               *)
(***************************************************************************)
\* The keyword the callers pass and the signature does not take.
NoKeyword == [passed |-> FALSE, minutes |-> 0]

Keyword(minutes) == [passed |-> TRUE, minutes |-> minutes]

MeanRats(s) == RDiv(SumRats(s), Num(Len(s)))

CalibrateBody(events, interval_minutes, default_beta, default_eta) ==
    LET n == Len(events)
        durations == [i \in 1..n |-> Len(events[i]) * interval_minutes]
        intensities == [i \in 1..n |->
                          IF Len(events[i]) > 0
                          THEN Rat(SumInts(RowValues(events[i])),
                                   Len(events[i]) * interval_minutes)
                          ELSE Num(0)]
        span == events[n][Len(events[n])].t - events[1][1].t
        total_duration_minutes == IF span = 0 THEN 1 ELSE span
        lambda_param == Rat(n * 24 * 60, total_duration_minutes)
        gamma_param == IF SumInts(durations) > 0
                       THEN RDiv(Num(1), MeanInts(durations)) ELSE Rat(1, 100)
        mu_param == IF RPos(MeanRats(intensities))
                    THEN MeanRats(intensities) ELSE Rat(1, 10)
    IN  FullDict(lambda_param, default_beta, gamma_param, default_eta, mu_param)

\* The outcome of a call of calibrate and the parameter set it would store.
CalibrateCall(events, interval_minutes, default_beta, default_eta, intra_kw) ==
    IF intra_kw.passed THEN [outcome |-> "TypeError", params |-> NoParams]
    ELSE IF events = <<>> THEN [outcome |-> "NoEvents", params |-> NoParams]
    ELSE IF Len(events[1]) = 0 \/ Len(events[Len(events)]) = 0
         THEN [outcome |-> "IndexError", params |-> NoParams]
    ELSE [outcome |-> "ok",
          params |-> CalibrateBody(events, interval_minutes, default_beta, default_eta)]

(***************************************************************************)
(* generate_synthetic_rainfall                                             *)
(***************************************************************************)
\* The largest count a Poisson draw gives in the model.
MaxCount == 2

\* poisson.rvs(mu) for mu >= 0: 0 when mu = 0.
PoissonRvs(mu, s) == IF mu.n = 0 THEN 0 ELSE RngBits(s) % (MaxCount + 1)

\* np.random.uniform(0, high): a point of [0, high).
UniformRvs(high, s) == Rat(high * (RngBits(s) % 8), 8)

\* expon.rvs(scale = scale): a positive multiple of the scale.
ExponRvs(scale, s) ==
    RMul(scale, CASE RngBits(s) % 4 = 0 -> Rat(1, 4)
                  [] RngBits(s) % 4 = 1 -> Num(1)
                  [] RngBits(s) % 4 = 2 -> Rat(5, 2)
                  [] OTHER -> Num(6))

\* for i in range(i_start, i_end): if 0 <= i < len(rainfall): rainfall.iloc[i] += intensity
AddPulse(cells, i_start, i_end, intensity) ==
    [k \in 1..Len(cells) |->
        IF i_start <= k - 1 /\ k - 1 < i_end THEN RAdd(cells[k], intensity)
        ELSE cells[k]]

\* How many indices of range(i_start, i_end) lie outside the grid (a history
\* value: the code only skips them).
Skipped(cells, i_start, i_end) ==
    Cardinality({i \in i_start..(i_end - 1) : i < 0 \/ i >= Len(cells)})

\* A call that raised err, leaving the generator in state s.
Failed(err, s) ==
    [outcome |-> err, cells |-> <<>>, rng |-> s, skipped |-> 0, pulses |-> <<>>]

\* A call that returned cells; skipped and pulses are history values: the
\* indices skipped and the pulses drawn ([t, d, x]: current_time, duration,
\* intensity), in the order drawn.
Returned(cells, s, skipped, pulses) ==
    [outcome |-> "ok", cells |-> cells, rng |-> s, skipped |-> skipped,
     pulses |-> pulses]

\* The pulses of one storm still to draw (j of them), from the time t.
RECURSIVE PulseLoop(_, _, _, _, _, _, _, _)
PulseLoop(p, out, j, t, cells, s, sk, ps) ==
    IF j = 0 THEN Returned(cells, s, sk, ps)
    ELSE IF Lookup(p, "gamma") # "ok" THEN Failed(Lookup(p, "gamma"), s)
    ELSE LET current_time == RAdd(t, ExponRvs(RDiv(Num(1), p.v["gamma"]), s))
             s1 == RngNext(s)
         IN  IF Lookup(p, "eta") # "ok" THEN Failed(Lookup(p, "eta"), s1)
             ELSE LET duration == ExponRvs(RDiv(Num(1), p.v["eta"]), s1)
                      s2 == RngNext(s1)
                  IN  IF Lookup(p, "mu") # "ok" THEN Failed(Lookup(p, "mu"), s2)
                      ELSE LET intensity == ExponRvs(p.v["mu"], s2)
                               s3 == RngNext(s2)
                               i_start == RFloorDiv(current_time, out)
                               i_end == RFloorDiv(RAdd(current_time, duration), out)
                           IN  PulseLoop(p, out, j - 1, current_time,
                                         AddPulse(cells, i_start, i_end, intensity), s3,
                                         sk + Skipped(cells, i_start, i_end),
                                         Append(ps, [t |-> current_time,
                                                     d |-> duration,
                                                     x |-> intensity]))

\* The storms still to draw (k of them).
RECURSIVE StormLoop(_, _, _, _, _, _, _, _)
StormLoop(p, total, out, k, cells, s, sk, ps) ==
    IF k = 0 THEN Returned(cells, s, sk, ps)
    ELSE LET storm_start == UniformRvs(total, s)
             s1 == RngNext(s)
         IN  IF Lookup(p, "beta") # "ok" THEN Failed(Lookup(p, "beta"), s1)
             ELSE LET pulses == PoissonRvs(p.v["beta"], s1)
                      r == PulseLoop(p, out, pulses, storm_start, cells, RngNext(s1),
                                     sk, ps)
                  IN  IF r.outcome # "ok" THEN r
                      ELSE StormLoop(p, total, out, k - 1, r.cells, r.rng, r.skipped,
                                     r.pulses)

\* Whether the call reseeds the generator.
Reseeds(seed) == seed.d > 0

\* A slip: the seed argument is ignored.
SeedIgnored(seed, s) == s

\* The generator's state once the seed argument is handled (None: unchanged).
Seeded(seed, s) == IF Reseeds(seed) THEN SeedState(seed.n) ELSE s

\* generate_synthetic_rainfall on a model with the flag cal and the parameter
\* set p, from the generator state s: the outcome, the series and the
\* generator's state after the call.
\* A slip: the quotient rounded up, so a partial last interval gets a cell.
NIntervalsRoundedUp(total, out) == (total + out - 1) \div out

\* n_intervals = total_duration_minutes // output_interval_minutes
NIntervals(total, out) == total \div out

\* The call once the calibrated check has passed.
GenerateBody(p, total, out, seed, s) ==
    LET s0 == Seeded(seed, s)
        rainfall == [k \in 1..NIntervals(total, out) |-> Num(0)]
    IN  IF Lookup(p, "lambda") # "ok" THEN Failed(Lookup(p, "lambda"), s0)
        ELSE LET n_storms == PoissonRvs(RMul(Rat(p.v["lambda"].n, p.v["lambda"].d * 24 * 60),
                                             Num(total)), s0)
             IN  StormLoop(p, total, out, n_storms, rainfall, RngNext(s0), 0, <<>>)

\* A slip: the generator is seeded before the calibrated check.
GenerateCallSeedsFirst(cal, p, total, out, seed, s) ==
    IF ~cal THEN Failed("NotCalibrated", Seeded(seed, s))
    ELSE GenerateBody(p, total, out, seed, s)

GenerateCall(cal, p, total, out, seed, s) ==
    IF ~cal THEN Failed("NotCalibrated", s) ELSE GenerateBody(p, total, out, seed, s)

(***************************************************************************)
(* disaggregate.  A coarse series is [step, vals]: step is the difference  *)
(* of its first two timestamps, in minutes.                                *)
(***************************************************************************)
CoarseInterval(coarse) == IF Len(coarse.vals) > 1 THEN coarse.step ELSE 60

\* The segment of one non-zero coarse value, from the simulation sim.
Rescale(sim, value) ==
    LET total == SumRats(sim)
    IN  IF RPos(total)
        THEN [k \in 1..Len(sim) |-> RMul(sim[k], RDiv(Num(value), total))]
        ELSE [k \in 1..Len(sim) |-> Rat(value, Len(sim))]

\* The loop over the coarse samples from the sample i (from 1) on.
\* A slip: only the simulation of the first coarse sample is given the seed.
RECURSIVE DisaggLoopSeedsOnce(_, _, _, _, _, _, _)
DisaggLoopSeedsOnce(p, coarse, fine, seed, i, disagg, s) ==
    IF i > Len(coarse.vals) THEN Returned(disagg, s, 0, <<>>)
    ELSE LET periods == CoarseInterval(coarse) \div fine
             value == coarse.vals[i]
         IN  IF value = 0
             THEN DisaggLoopSeedsOnce(p, coarse, fine, seed, i + 1,
                                      disagg \o [k \in 1..periods |-> Num(0)], s)
             ELSE LET r == GenerateCall(TRUE, p, CoarseInterval(coarse), fine,
                                        IF i = 1 THEN seed ELSE None, s)
                  IN  IF r.outcome # "ok" THEN Failed(r.outcome, r.rng)
                      ELSE IF ~RPos(SumRats(r.cells)) /\ Len(r.cells) = 0
                           THEN Failed("ZeroDivisionError", r.rng)
                      ELSE IF Len(r.cells) # periods
                           THEN Failed("LengthMismatch", r.rng)
                      ELSE DisaggLoopSeedsOnce(p, coarse, fine, seed, i + 1,
                                               disagg \o Rescale(r.cells, value), r.rng)

RECURSIVE DisaggLoop(_, _, _, _, _, _, _)
DisaggLoop(p, coarse, fine, seed, i, disagg, s) ==
    IF i > Len(coarse.vals) THEN Returned(disagg, s, 0, <<>>)
    ELSE LET periods == CoarseInterval(coarse) \div fine
             value == coarse.vals[i]
         IN  IF value = 0
             THEN DisaggLoop(p, coarse, fine, seed, i + 1,
                             disagg \o [k \in 1..periods |-> Num(0)], s)
             ELSE LET r == GenerateCall(TRUE, p, CoarseInterval(coarse), fine, seed, s)
                  IN  IF r.outcome # "ok" THEN Failed(r.outcome, r.rng)
                      ELSE IF ~RPos(SumRats(r.cells)) /\ Len(r.cells) = 0
                           THEN Failed("ZeroDivisionError", r.rng)
                      ELSE IF Len(r.cells) # periods
                           THEN Failed("LengthMismatch", r.rng)
                      ELSE DisaggLoop(p, coarse, fine, seed, i + 1,
                                      disagg \o Rescale(r.cells, value), r.rng)

DisaggregateCall(cal, p, coarse, fine, seed, s) ==
    IF ~cal THEN Failed("NotCalibrated", s)
    ELSE DisaggLoop(p, coarse, fine, seed, 1, <<>>, s)

(***************************************************************************)
(* The operations on one model object.  res is the last call: its          *)
(* arguments and what it returned or raised.  memo is a history variable:  *)
(* the first seeded, successful generate call chosen to be remembered.     *)
(***************************************************************************)
NoCall == [op |-> "none", outcome |-> "ok"]

NoMemo == [set |-> FALSE]

\* The remembered call, one more call having run since (counted up to 2).
Later(m) == IF m.set /\ m.later < 2 THEN [m EXCEPT !.later = @ + 1] ELSE m

\* BartlettLewisModel(params = p)
Construct(p) ==
    /\ params' = p
    /\ calibrated' = Truthy(p)
    /\ res' = [op |-> "construct", outcome |-> "ok"]
    /\ UNCHANGED <<rng, memo>>

\* load_params on a file that holds p
LoadParams(p) ==
    /\ params' = p
    /\ calibrated' = TRUE
    /\ res' = [op |-> "load_params", outcome |-> "ok"]
    /\ UNCHANGED <<rng, memo>>

\* A slip: the parameters are stored before the events are checked.
CalibrateStoresFirst(events, interval_minutes, default_beta, default_eta, intra_kw) ==
    LET r == CalibrateCall(events, interval_minutes, default_beta, default_eta, intra_kw)
    IN  /\ params' = r.params
        /\ calibrated' = IF r.outcome = "ok" THEN TRUE ELSE calibrated
        /\ res' = [op |-> "calibrate", outcome |-> r.outcome, events |-> events,
                   interval |-> interval_minutes, default_beta |-> default_beta,
                   default_eta |-> default_eta, intra_kw |-> intra_kw,
                   returned |-> r.params]
        /\ UNCHANGED <<rng, memo>>

Calibrate(events, interval_minutes, default_beta, default_eta, intra_kw) ==
    LET r == CalibrateCall(events, interval_minutes, default_beta, default_eta, intra_kw)
    IN  /\ params' = IF r.outcome = "ok" THEN r.params ELSE params
        /\ calibrated' = IF r.outcome = "ok" THEN TRUE ELSE calibrated
        /\ res' = [op |-> "calibrate", outcome |-> r.outcome, events |-> events,
                   interval |-> interval_minutes, default_beta |-> default_beta,
                   default_eta |-> default_eta, intra_kw |-> intra_kw,
                   returned |-> r.params]
        /\ UNCHANGED <<rng, memo>>

Generate(total, out, seed, remember) ==
    LET r == GenerateCall(calibrated, params, total, out, seed, rng)
    IN  /\ rng' = r.rng
        /\ res' = [op |-> "generate", outcome |-> r.outcome, total |-> total,
                   out |-> out, seed |-> seed, cells |-> r.cells,
                   skipped |-> r.skipped, pulses |-> r.pulses]
        /\ memo' = IF remember /\ ~memo.set /\ Reseeds(seed) /\ r.outcome = "ok"
                   THEN [set |-> TRUE, params |-> params, total |-> total,
                         out |-> out, seed |-> seed, cells |-> r.cells, later |-> 0]
                   ELSE Later(memo)
        /\ UNCHANGED <<params, calibrated>>

Disaggregate(coarse, fine, seed) ==
    LET r == DisaggregateCall(calibrated, params, coarse, fine, seed, rng)
    IN  /\ rng' = r.rng
        /\ res' = [op |-> "disaggregate", outcome |-> r.outcome, coarse |-> coarse,
                   fine |-> fine, seed |-> seed, cells |-> r.cells]
        /\ memo' = Later(memo)
        /\ UNCHANGED <<params, calibrated>>

\* identify_events and extrair_beta_eta read and write no state of the model.
IdentifyEventsOp(series, inter_event_gap_minutes) ==
    /\ res' = [op |-> "identify_events", outcome |-> "ok", series |-> series,
               gap |-> inter_event_gap_minutes,
               gap_intervals |-> GapIntervals(inter_event_gap_minutes, series.step),
               padded |-> Len(PaddedSeries(series,
                              GapIntervals(inter_event_gap_minutes, series.step))),
               scan |-> IdentifyScan(series, inter_event_gap_minutes)]
    /\ UNCHANGED <<params, calibrated, rng, memo>>

ExtractBetaEtaOp(events, interval_minutes, intra_event_gap_minutes) ==
    /\ res' = [op |-> "extract_beta_eta", outcome |-> "ok", events |-> events,
               interval |-> interval_minutes, gap |-> intra_event_gap_minutes,
               durations |-> AllPulseDurations(events,
                                 GapIntervals(intra_event_gap_minutes, interval_minutes),
                                 interval_minutes),
               returned |-> ExtractBetaEta(events, interval_minutes,
                                           intra_event_gap_minutes)]
    /\ UNCHANGED <<params, calibrated, rng, memo>>

(***************************************************************************)
(* The inputs the specifications draw from.                                *)
(***************************************************************************)
\* The longest series given to identify_events, and its largest value.
MaxLen == 5

MaxVal == 2

\* The longest event, and the most events, given to extrair_beta_eta.
MaxEventLen == 3

MaxEvents == 3

RngStates == 0..(RngMod - 1)

Seeds == {None, Num(0), Num(1)}

\* The event with the values vals, sampled every step minutes from t0.
MkEvent(t0, step, vals) == [k \in 1..Len(vals) |-> Row(t0 + (k - 1) * step, vals[k])]

\* The events of test_calibrate_uses_beta_eta_extraction.
TestEvents == <<MkEvent(0, 10, <<1, 0, 1>>), MkEvent(1440, 10, <<2, 0, 0, 3>>)>>

SeriesInputs ==
    {[t0 |-> 0, step |-> 10, vals |-> v] :
        v \in UNION {[1..n -> 0..MaxVal] : n \in 2..MaxLen}}

InterEventGaps == {5, 10, 20, 28, 30}

EventShapes == UNION {[1..n -> {0, 1}] : n \in 1..MaxEventLen}

ShortShapes == UNION {[1..n -> {0, 1}] : n \in 1..2}

\* Lists of events a day apart: the tests' events, every list of one or two
\* events, and the longer lists of short events.
EventListInputs ==
    {TestEvents}
    \cup UNION {{[i \in 1..n |-> MkEvent(1440 * (i - 1), 10, f[i])] :
                    f \in [1..n -> EventShapes]} : n \in 1..2}
    \cup UNION {{[i \in 1..n |-> MkEvent(1440 * (i - 1), 10, f[i])] :
                    f \in [1..n -> ShortShapes]} : n \in 3..MaxEvents}

IntraEventGaps == {5, 10, 15, 20}

\* Parameter sets handed to the constructor or read by load_params: None, the
\* empty dict, a dict with one key, the tests' dict, and two more full sets.
FullParamSets ==
    {FullDict(Num(1), Num(1), Num(1), Num(1), Num(1)),
     FullDict(Num(48), Num(2), Rat(1, 10), Rat(1, 20), Num(2)),
     FullDict(Num(0), Num(1), Rat(1, 5), Rat(1, 5), Rat(1, 2))}

ParamSets ==
    FullParamSets
    \cup {NoParams, Dict({}, None, None, None, None, None),
          Dict({"lambda"}, Num(1), None, None, None, None)}

\* Event lists given to calibrate: none, the tests' events, one event of one
\* row, events found by identify_events, and lists that hold an empty event.
CalEventLists ==
    {<<>>, TestEvents, <<MkEvent(0, 10, <<3>>)>>,
     IdentifyEvents([t0 |-> 0, step |-> 10, vals |-> <<0, 1, 2, 0, 0, 0, 3>>], 30),
     <<MkEvent(0, 10, <<1, 2>>), <<>>, MkEvent(100, 10, <<4>>)>>,
     <<MkEvent(0, 10, <<1, 2>>), <<>>>>}

DefaultBetas == {None, Num(5)}

DefaultEtas == {None, Rat(1, 10)}

IntraKeywords == {NoKeyword, Keyword(10)}

CoarseInputs ==
    {[step |-> 60, vals |-> <<0, 5>>], [step |-> 60, vals |-> <<5>>],
     [step |-> 60, vals |-> <<0, 0>>], [step |-> 30, vals |-> <<2, 3>>],
     [step |-> 45, vals |-> <<1, 0, 4>>], [step |-> 60, vals |-> <<2, 3, 2>>]}

FineIntervals == {10, 30, 90}

Totals == {60, 25}

OutIntervals == {10, 7}

(***************************************************************************)
(* Specifications                                                          *)
(***************************************************************************)
\* A model constructed with params = p, the process's generator in state s.
Constructed(p, s) ==
    /\ params = p
    /\ calibrated = Truthy(p)
    /\ rng = s
    /\ res = NoCall
    /\ memo = NoMemo

\* The life of one model object: BartlettLewisModel(), then any calls.
Init == \E s \in RngStates : Constructed(NoParams, s)

Next ==
    \/ \E p \in ParamSets : Construct(p)
    \/ \E p \in ParamSets : LoadParams(p)
    \/ \E ev \in CalEventLists, iv \in {10}, db \in DefaultBetas,
          de \in DefaultEtas, kw \in IntraKeywords : Calibrate(ev, iv, db, de, kw)
    \/ \E seed \in {None, Num(0)} : Generate(60, 10, seed, FALSE)
    \/ \E seed \in {None, Num(0)} :
          Disaggregate([step |-> 60, vals |-> <<0, 5>>], 30, seed)

Spec == Init /\ [][Next]_vars

\* Simulation and disaggregation on a model constructed with any params.
InitSim == \E p \in ParamSets, s \in RngStates : Constructed(p, s)

NextSim ==
    \/ \E total \in Totals, out \in OutIntervals, seed \in Seeds :
          Generate(total, out, seed, FALSE)
    \/ \E coarse \in CoarseInputs, fine \in FineIntervals, seed \in Seeds :
          Disaggregate(coarse, fine, seed)

SpecSim == InitSim /\ [][NextSim]_vars

\* Repeated generation on one full parameter set, remembering one seeded call.
InitRepro == \E p \in FullParamSets, s \in RngStates : Constructed(p, s)

NextRepro ==
    \/ \E total \in Totals, seed \in Seeds, remember \in BOOLEAN :
          Generate(total, 10, seed, remember)
    \/ \E seed \in Seeds : Disaggregate([step |-> 60, vals |-> <<0, 5>>], 30, seed)

SpecRepro == InitRepro /\ [][NextRepro]_vars

\* One call of identify_events, on any series of the bounds.
NextEvents ==
    /\ res = NoCall
    /\ \E series \in SeriesInputs, gap \in InterEventGaps : IdentifyEventsOp(series, gap)

SpecEvents == Constructed(NoParams, 0) /\ [][NextEvents]_vars

\* One call of extrair_beta_eta, on any event list of the bounds.
NextPulses ==
    /\ res = NoCall
    /\ \E events \in EventListInputs, gap \in IntraEventGaps :
          ExtractBetaEtaOp(events, 10, gap)

SpecPulses == Constructed(NoParams, 0) /\ [][NextPulses]_vars

(***************************************************************************)
(* Properties                                                              *)
(***************************************************************************)
\* A parameter set as the data model defines it: all five fields, each a
\* number, lambda and beta not negative, gamma, eta and mu positive.
ValidParams(p) ==
    /\ ~p.none
    /\ p.keys = Keys
    /\ \A k \in Keys : IsNum(p.v[k]) /\ p.v[k].n >= 0
    /\ \A k \in {"gamma", "eta", "mu"} : RPos(p.v[k])

\* C1: on a calibrated model with a valid parameter set, disaggregate returns
\* a series whose total is the total of the coarse series, for every coarse
\* series, fine interval and seed.
C1_TotalPreserved ==
    (res.op = "disaggregate" /\ calibrated /\ ValidParams(params))
        => /\ res.outcome = "ok"
           /\ SumRats(res.cells) = Num(SumInts(res.coarse.vals))

\* C1, where it holds: the total is preserved whenever the fine interval is
\* not longer than the coarse interval.
C1_TotalPreservedWithinInterval ==
    (res.op = "disaggregate" /\ calibrated /\ ValidParams(params)
     /\ res.fine <= CoarseInterval(res.coarse))
        => /\ res.outcome = "ok"
           /\ SumRats(res.cells) = Num(SumInts(res.coarse.vals))

\* C2: on a calibrated model with a valid parameter set, disaggregate returns
\* n * (coarse_interval / fine_interval) cells for a coarse series of n samples.
C2_CellCount ==
    (res.op = "disaggregate" /\ calibrated /\ ValidParams(params))
        => /\ res.outcome = "ok"
           /\ Len(res.cells)
                = Len(res.coarse.vals) * (CoarseInterval(res.coarse) \div res.fine)

\* C3: on a calibrated model with a valid parameter set, generate returns
\* exactly floor(total_duration_minutes / output_interval_minutes) cells.
C3_GenerateLength ==
    (res.op = "generate" /\ calibrated /\ ValidParams(params))
        => /\ res.outcome = "ok"
           /\ Len(res.cells) * res.out <= res.total
           /\ res.total < (Len(res.cells) + 1) * res.out

\* C3's case: 60 minutes at 10-minute resolution gave 6 cells, some of them
\* wet, while part of a pulse fell outside the grid.
C3_Witness ==
    /\ res.op = "generate" /\ res.outcome = "ok"
    /\ res.total = 60 /\ res.out = 10 /\ Len(res.cells) = 6
    /\ res.skipped > 0
    /\ \E k \in 1..Len(res.cells) : RPos(res.cells[k])

\* C6: on a model that is not calibrated, generate_synthetic_rainfall and
\* disaggregate raise the not-calibrated error, return no series, and leave
\* the random generator as it was (neither seeded nor drawn from).
C6_NotCalibratedFailsFast ==
    [][(~calibrated /\ res'.op \in {"generate", "disaggregate"})
          => /\ res'.outcome = "NotCalibrated"
             /\ res'.cells = <<>>
             /\ rng' = rng]_vars

\* C6's case: a seeded call on a model constructed without params has failed.
C6_Witness ==
    /\ ~calibrated /\ params.none
    /\ res.op \in {"generate", "disaggregate"}
    /\ res.outcome = "NotCalibrated"
    /\ Reseeds(res.seed)

\* C9: a seeded generate call returns the series that the remembered call
\* with the same parameter set, duration, interval and seed returned,
\* whatever calls ran in between.
C9_SeededGenerateRepeats ==
    (memo.set /\ res.op = "generate" /\ params = memo.params
     /\ res.total = memo.total /\ res.out = memo.out /\ res.seed = memo.seed)
        => /\ res.outcome = "ok"
           /\ res.cells = memo.cells

\* C9's case: the remembered call was repeated after at least one other call
\* (later = 2: the other call, then the repeat), and the series is not dry.
C9_Witness ==
    /\ memo.set /\ memo.later = 2
    /\ res.op = "generate" /\ res.outcome = "ok"
    /\ res.total = memo.total /\ res.out = memo.out /\ res.seed = memo.seed
    /\ res.cells = memo.cells
    /\ \E k \in 1..Len(res.cells) : RPos(res.cells[k])

\* C4: a calibrate call on a non-empty event list with default_beta = None,
\* default_eta = None and an intra-event gap returns and stores beta and eta
\* as extract_beta_eta gives them for the same events, interval and gap; a
\* call with constants that are not None stores those constants.
C4_BetaEtaFromExtraction ==
    (res.op = "calibrate" /\ res.events # <<>>
     /\ Len(res.events[1]) > 0 /\ Len(res.events[Len(res.events)]) > 0)
        => /\ (~IsNum(res.default_beta) /\ ~IsNum(res.default_eta) /\ res.intra_kw.passed)
                => LET be == ExtractBetaEta(res.events, res.interval,
                                            res.intra_kw.minutes)
                   IN  /\ res.outcome = "ok"
                       /\ params = res.returned
                       /\ params.v["beta"] = be.beta
                       /\ params.v["eta"] = be.eta
           /\ (IsNum(res.default_beta) /\ IsNum(res.default_eta) /\ res.outcome = "ok")
                => /\ params = res.returned
                   /\ params.v["beta"] = res.default_beta
                   /\ params.v["eta"] = res.default_eta

\* C7: calibrate on an empty event list raises the no-events error and leaves
\* the parameter set and the calibrated flag as they were; every calibrate
\* call either returns, stores all five parameters and sets the flag, or
\* raises and leaves both as they were.
C7_CalibrateAllOrNothing ==
    [][res'.op = "calibrate"
          => /\ (res'.events = <<>> /\ ~res'.intra_kw.passed)
                  => res'.outcome = "NoEvents"
             /\ res'.events = <<>> => res'.outcome # "ok"
             /\ \/ /\ res'.outcome = "ok"
                   /\ params' = res'.returned
                   /\ ~params'.none /\ params'.keys = Keys
                   /\ calibrated'
                \/ /\ res'.outcome # "ok"
                   /\ params' = params
                   /\ calibrated' = calibrated]_vars

\* C7's case: calibrate on an empty list has failed on a model calibrated
\* before, which keeps its parameters and its flag.
C7_Witness ==
    /\ res.op = "calibrate" /\ res.events = <<>> /\ res.outcome = "NoEvents"
    /\ calibrated /\ ValidParams(params)

\* C10: after every successful calibrate call the stored parameter set has
\* all five fields holding numbers, with gamma, eta and mu positive.
C10_CalibratedParamsNumeric ==
    (res.op = "calibrate" /\ res.outcome = "ok")
        => /\ ~params.none /\ params.keys = Keys
           /\ \A k \in Keys : IsNum(params.v[k])
           /\ \A k \in {"gamma", "eta", "mu"} : RPos(params.v[k])

\* The pulses of an event's values v as the claims describe them, for the
\* zero-run threshold g.  A pulse starts at a positive sample that is the
\* first of the event or follows a zero run of at least g samples.
PrevPositive(v, k) ==
    LET before == {q \in 1..(k - 1) : v[q] > 0}
    IN  IF before = {} THEN 0 ELSE CHOOSE q \in before : \A x \in before : x <= q

PulseStarts(v, g) ==
    {k \in 1..Len(v) :
        /\ v[k] > 0
        /\ \/ PrevPositive(v, k) = 0
           \/ /\ k - PrevPositive(v, k) - 1 >= 1
              /\ k - PrevPositive(v, k) - 1 >= g}

\* The last positive sample of the pulse that starts at a.
PulseEnd(v, g, a) ==
    LET inPulse == {b \in a..Len(v) :
                      v[b] > 0 /\ \A k \in (a + 1)..b : k \notin PulseStarts(v, g)}
    IN  CHOOSE b \in inPulse : \A x \in inPulse : x <= b

\* The samples the scan measures for the pulse that starts at a: from a to
\* its last positive sample, and the zeros after it short of the threshold.
MeasuredLength(v, g, a) ==
    LET b == PulseEnd(v, g, a)
        after == {k \in (b + 1)..Len(v) : \A q \in (b + 1)..k : v[q] = 0}
        z == Cardinality(after)
        most == IF g >= 1 THEN g - 1 ELSE 0
    IN  (b - a + 1) + (IF z < most THEN z ELSE most)

RECURSIVE SumOverSet(_, _, _)
SumOverSet(v, g, starts) ==
    IF starts = {} THEN 0
    ELSE LET a == CHOOSE x \in starts : TRUE
         IN  MeasuredLength(v, g, a) + SumOverSet(v, g, starts \ {a})

C8_SingleRunIsTheEvent ==
    res.op = "identify_events"
        => LET v == res.series.vals
               ev == res.scan.events
           IN  /\ (\A k \in 1..Len(v) : v[k] = 0) => ev = <<>>
               /\ \A a \in 1..Len(v) : \A b \in a..Len(v) :
                     (\A k \in 1..Len(v) : v[k] > 0 <=> (a <= k /\ k <= b))
                        => ev = <<[k \in 1..(b - a + 1) |->
                                     Row(res.series.t0 + (a + k - 2) * res.series.step,
                                         v[a + k - 1])]>>

\* The input samples (from 1) that the event e holds, by timestamp.
SamplesOf(series, e) ==
    {k \in 1..Len(series.vals) :
        \E j \in 1..Len(e) : e[j].t = series.t0 + (k - 1) * series.step}

\* C11: every positive sample of the input is in exactly one emitted event,
\* and no event is left open when the scan of identify_events ends: a
\* positive run that lasts to the final sample is emitted too.
C11_EveryPositiveEmitted ==
    res.op = "identify_events"
        => LET v == res.series.vals
               ev == res.scan.events
           IN  /\ ~res.scan.in_event
               /\ \A k \in 1..Len(v) :
                     v[k] > 0
                       => Cardinality({e \in 1..Len(ev) :
                                         k \in SamplesOf(res.series, ev[e])}) = 1

\* C11, where it holds: with an inter-event gap of at least one series
\* interval the scan ends with no open event and every positive sample is
\* in exactly one event.
C11_EmittedWhenGapReachesInterval ==
    (res.op = "identify_events" /\ res.gap >= res.series.step)
        => LET v == res.series.vals
               ev == res.scan.events
           IN  /\ ~res.scan.in_event
               /\ \A k \in 1..Len(v) :
                     v[k] > 0
                       => Cardinality({e \in 1..Len(ev) :
                                         k \in SamplesOf(res.series, ev[e])}) = 1

\* Whether a zero run of at least g samples lies between the samples a and b.
ZeroRunBetween(v, g, a, b) ==
    \E i \in (a + 1)..(b - 1) : \E j \in i..(b - 1) :
        /\ \A q \in i..j : v[q] = 0
        /\ j - i + 1 >= g

\* The rows of all events, in the order identify_events returns them.
RECURSIVE AllRows(_)
AllRows(events) ==
    IF events = <<>> THEN <<>> ELSE Head(events) \o AllRows(Tail(events))

\* What C12 says of the events ev found in the series for the threshold g.
EventsAreMaximalSpans(series, g, ev) ==
    LET v == series.vals
        rows == AllRows(ev)
        together(a, b) == \E e \in 1..Len(ev) :
                             {a, b} \subseteq SamplesOf(series, ev[e])
    IN  /\ \A j \in 1..(Len(rows) - 1) : rows[j].t < rows[j + 1].t
        /\ \A j \in 1..Len(rows) :
              /\ rows[j].v > 0
              /\ \E k \in 1..Len(v) :
                    rows[j] = Row(series.t0 + (k - 1) * series.step, v[k])
        /\ \A a \in 1..Len(v) : \A b \in (a + 1)..Len(v) :
              (v[a] > 0 /\ v[b] > 0)
                 => (together(a, b) <=> ~ZeroRunBetween(v, g, a, b))

\* C12: identify_events returns its events in chronological order, each
\* holding only positive samples of the input, and two positive samples are
\* in the same event exactly when no zero run of gap_intervals or more
\* samples lies between them.
C12_EventsAreMaximalSpans ==
    res.op = "identify_events"
        => EventsAreMaximalSpans(res.series, res.gap_intervals, res.scan.events)

\* C12, where it holds: the same for an inter-event gap of at least one
\* series interval.
C12_MaximalSpansWhenGapReachesInterval ==
    (res.op = "identify_events" /\ res.gap >= res.series.step)
        => EventsAreMaximalSpans(res.series, res.gap_intervals, res.scan.events)

\* Whether n is the quotient a / b rounded to the nearest integer (a tie may
\* go either way).
IsNearest(n, a, b) == 2 * Abs(n * b - a) <= b

\* C13: identify_events uses gap_intervals = inter_event_gap / interval
\* rounded to the nearest integer, as the number of zeros padded on each
\* side and as the closing threshold; a 28-minute gap at a 10-minute
\* interval gives 3.
C13_GapIntervalsRounded ==
    res.op = "identify_events"
        => /\ IsNearest(res.gap_intervals, res.gap, res.series.step)
           /\ res.padded = Len(res.series.vals) + 2 * res.gap_intervals
           /\ (res.gap = 28 /\ res.series.step = 10) => res.gap_intervals = 3

\* C13, as the code computes it: the quotient truncated to an integer.
C13_GapIntervalsTruncated ==
    res.op = "identify_events"
        => /\ res.gap_intervals * res.series.step <= res.gap
           /\ res.gap < (res.gap_intervals + 1) * res.series.step
           /\ res.padded = Len(res.series.vals) + 2 * res.gap_intervals

\* The grid cell (from 0) that contains the time t.
CellOf(t, out) == RFloorDiv(t, out)

\* The sum of the intensities of the pulses that span the cell c (from 0),
\* a pulse spanning the cells from the one that contains its arrival through
\* the one that contains its end.
RECURSIVE SpanSum(_, _, _)
SpanSum(pulses, out, c) ==
    IF pulses = <<>> THEN Num(0)
    ELSE LET p == Head(pulses)
         IN  RAdd(IF CellOf(p.t, out) <= c /\ c <= CellOf(RAdd(p.t, p.d), out)
                  THEN p.x ELSE Num(0),
                  SpanSum(Tail(pulses), out, c))

\* The same sum over the cells that range(i_start, i_end) visits.
RECURSIVE RangeSum(_, _, _)
RangeSum(pulses, out, c) ==
    IF pulses = <<>> THEN Num(0)
    ELSE LET p == Head(pulses)
         IN  RAdd(IF CellOf(p.t, out) <= c /\ c < CellOf(RAdd(p.t, p.d), out)
                  THEN p.x ELSE Num(0),
                  RangeSum(Tail(pulses), out, c))

\* C14: generate_synthetic_rainfall returns in every cell the sum of the
\* intensities of the pulses that span it, from the cell containing the
\* arrival through the cell containing arrival + duration; so a pulse that
\* arrives inside the grid raises the cell of its arrival by its intensity.
C14_PulseCoversItsSpan ==
    (res.op = "generate" /\ res.outcome = "ok" /\ ValidParams(params))
        => /\ \A k \in 1..Len(res.cells) :
                 res.cells[k] = SpanSum(res.pulses, res.out, k - 1)
           /\ \A j \in 1..Len(res.pulses) :
                 LET c == CellOf(res.pulses[j].t, res.out)
                 IN  (0 <= c /\ c < Len(res.cells))
                        => ~RLt(res.cells[c + 1], res.pulses[j].x)

\* C14, as the code adds the pulses: a cell holds the sum of the pulses whose
\* arrival cell is at or before it and whose end cell is after it.
C14_PulseCoversHalfOpenSpan ==
    (res.op = "generate" /\ res.outcome = "ok" /\ ValidParams(params))
        => \A k \in 1..Len(res.cells) :
              res.cells[k] = RangeSum(res.pulses, res.out, k - 1)

\* The samples C15 gives the pulse that starts at a: from a to its last
\* positive sample, and a zero run after it that the event's end cuts short
\* of the threshold.  No zero of a run that reaches the threshold.
ClaimedLength(v, g, a) ==
    LET b == PulseEnd(v, g, a)
        after == {k \in (b + 1)..Len(v) : \A q \in (b + 1)..k : v[q] = 0}
        z == Cardinality(after)
    IN  (b - a + 1) + (IF b + z = Len(v) /\ z < g THEN z ELSE 0)

\* The durations, in minutes, of the pulses that start at the sample k or
\* later, in order: as C15 gives them (claimed), or as the scan measures.
RECURSIVE DurationsFrom(_, _, _, _, _)
DurationsFrom(v, g, k, interval, claimed) ==
    IF k > Len(v) THEN <<>>
    ELSE (IF k \in PulseStarts(v, g)
          THEN <<(IF claimed THEN ClaimedLength(v, g, k)
                  ELSE MeasuredLength(v, g, k)) * interval>>
          ELSE <<>>)
         \o DurationsFrom(v, g, k + 1, interval, claimed)

RECURSIVE DurationsOfEvents(_, _, _, _)
DurationsOfEvents(events, g, interval, claimed) ==
    IF events = <<>> THEN <<>>
    ELSE DurationsFrom(RowValues(Head(events)), g, 1, interval, claimed)
         \o DurationsOfEvents(Tail(events), g, interval, claimed)

\* C15: for gap_intervals >= 1 the duration of every pulse is interval times
\* the number of its positive samples and of the zeros it absorbs; no zero
\* of the zero run that reaches gap_intervals and ends the pulse is counted.
C15_DurationCountsPulseOnly ==
    (res.op = "extract_beta_eta" /\ res.gap \div res.interval >= 1)
        => res.durations
             = DurationsOfEvents(res.events, res.gap \div res.interval,
                                 res.interval, TRUE)

\* C15, as the scan measures it: up to gap_intervals - 1 zeros of the run
\* that ends the pulse are counted too.
C15_DurationAsMeasured ==
    (res.op = "extract_beta_eta" /\ res.gap \div res.interval >= 1)
        => res.durations
             = DurationsOfEvents(res.events, res.gap \div res.interval,
                                 res.interval, FALSE)

\* C16: in every state reachable by constructing, calibrating, loading,
\* generating and disaggregating, calibrated = true implies a parameter set
\* with all five fields; so no call passes the calibrated check and then
\* finds the parameter set or one of its fields missing.
C16_CalibratedHasAllFields ==
    /\ calibrated => (~params.none /\ params.keys = Keys)
    /\ res.op \in {"generate", "disaggregate"}
          => /\ res.outcome # "KeyError"
             /\ res.outcome = "TypeError" => ~params.none

\* The cell k (from 1) of the fine segment of the coarse sample i (from 1).
SegmentCell(cells, periods, i, k) == cells[(i - 1) * periods + k]

\* C17: a disaggregate call with a seed resets the generator to that seed
\* before the simulation of every non-zero coarse sample (it leaves the
\* generator as one seeded simulation leaves it), so the fine segments of
\* any two non-zero coarse samples are proportional cell by cell, and equal
\* for equal values.
C17_SeededSegmentsProportional ==
    (res.op = "disaggregate" /\ res.outcome = "ok" /\ Reseeds(res.seed))
        => LET vals == res.coarse.vals
               periods == CoarseInterval(res.coarse) \div res.fine
               wet == {i \in 1..Len(vals) : vals[i] # 0}
               seg(i, k) == SegmentCell(res.cells, periods, i, k)
           IN  /\ wet # {}
                    => rng = GenerateCall(TRUE, params, CoarseInterval(res.coarse),
                                          res.fine, res.seed, 0).rng
               /\ \A i \in wet : \A j \in wet : \A k \in 1..periods :
                     /\ RMul(seg(i, k), Num(vals[j])) = RMul(seg(j, k), Num(vals[i]))
                     /\ vals[i] = vals[j] => seg(i, k) = seg(j, k)

\* C17's case: a seeded call on the coarse values 2, 3, 2 has returned; the
\* first and the third segment are the same and not flat.
C17_Witness ==
    /\ res.op = "disaggregate" /\ res.outcome = "ok" /\ Reseeds(res.seed)
    /\ res.coarse.vals = <<2, 3, 2>> /\ res.fine = 10
    /\ Len(res.cells) = 18
    /\ \A k \in 1..6 : res.cells[k] = res.cells[12 + k]
    /\ \E k \in 1..6 : res.cells[k] # res.cells[6 + k]
    /\ \E k \in 1..6 : \E q \in 1..6 : res.cells[k] # res.cells[q]

====
